---- MODULE Spec2Model ----
(***************************************************************************)
(* LibraryManager of src/Solution.ts as a state machine: the static        *)
(* singleton slot, the books, loans and observers arrays, the injected     *)
(* IEmailService, and what one call writes to the console, sends to the    *)
(* injected service and returns.                                           *)
(*                                                                         *)
(* Strings are sequences of characters (characters are small integers) so  *)
(* that String.includes is a real substring test.  A Date is an integer    *)
(* timestamp; the wall clock is an input and may repeat or step back.      *)
(***************************************************************************)
EXTENDS Integers, Sequences, FiniteSets, TLC

\* ---- bounds of the model ------------------------------------------------
MaxBooks == 3
MaxLoans == 2
MaxObservers == 2

\* ---- the inputs the calls draw from -------------------------------------
ISBNs == {<<1>>, <<2>>}
\* The (title, author) pairs addBook is called with.
Works == {[title |-> <<1>>, author |-> <<2>>],
          [title |-> <<1, 2>>, author |-> <<2, 1>>]}
Titles == {w.title : w \in Works}
UserIDs == {<<1>>, <<2>>}
Users == {<<3>>, <<4>>}
Dates == {0, 1}
EmailServices == {"serviceA", "serviceB"}

VARIABLES
    instance,       \* LibraryManager.instance is set
    books,          \* this.books
    loans,          \* this.loans
    emailService,   \* this.emailService
    observers,      \* this.observers
    console,        \* what the last call wrote with console.log/warn/error
    emailed,        \* the sendEmail calls the last call made on this.emailService
    ret,            \* what the last call returned
    lastOp,         \* the name of the last call
    scenario        \* progress of the loan, return, return sequence

vars == <<instance, books, loans, emailService, observers, console, emailed,
          ret, lastOp, scenario>>

\* ---- records ------------------------------------------------------------
Book(title, author, ISBN) == [title |-> title, author |-> author, ISBN |-> ISBN]

Loan(ISBN, userID, date) == [ISBN |-> ISBN, userID |-> userID, date |-> date]

\* One console line: the level tag of the line ("INFO", "WARNING", "ERROR",
\* or "LOG" for an untagged console.log), its fixed text and the values
\* interpolated into it.
Line(level, text, args) == [level |-> level, text |-> text, args |-> args]

\* A message handed to sendEmail: fixed text and the interpolated values.
Message(text, args) == [text |-> text, args |-> args]

\* `${date}`: a Date rendered into a template string.
dateString(date) == <<date>>

Void == [kind |-> "void", val |-> <<>>]
Undefined == [kind |-> "undefined", val |-> <<>>]
Found(book) == [kind |-> "book", val |-> <<book>>]

NoScenario == [stage |-> 0, ISBN |-> <<>>, userID |-> <<>>]

\* ---- Array helpers, with JavaScript's 0-based indices --------------------
\* Array.prototype.some / find / findIndex on books by ISBN.
someISBN(bs, ISBN) == \E k \in 1..Len(bs) : bs[k].ISBN = ISBN

findIndexISBN(bs, ISBN) ==
    IF someISBN(bs, ISBN)
    THEN (CHOOSE k \in 1..Len(bs) :
            /\ bs[k].ISBN = ISBN
            /\ \A j \in 1..(k - 1) : bs[j].ISBN # ISBN) - 1
    ELSE -1

findISBN(bs, ISBN) ==
    IF findIndexISBN(bs, ISBN) = -1
    THEN Undefined
    ELSE Found(bs[findIndexISBN(bs, ISBN) + 1])

\* loans.findIndex(loan => loan.ISBN === ISBN && loan.userID === userID)
findIndexLoan(ls, ISBN, userID) ==
    IF \E k \in 1..Len(ls) : ls[k].ISBN = ISBN /\ ls[k].userID = userID
    THEN (CHOOSE k \in 1..Len(ls) :
            /\ ls[k].ISBN = ISBN /\ ls[k].userID = userID
            /\ \A j \in 1..(k - 1) :
                 ~(ls[j].ISBN = ISBN /\ ls[j].userID = userID)) - 1
    ELSE -1

\* observers.indexOf(user)
indexOf(os, user) ==
    IF \E k \in 1..Len(os) : os[k] = user
    THEN (CHOOSE k \in 1..Len(os) :
            os[k] = user /\ \A j \in 1..(k - 1) : os[j] # user) - 1
    ELSE -1

\* array.splice(index, 1): the array without the element at 0-based index.
splice1(s, index) ==
    [k \in 1..(Len(s) - 1) |-> IF k <= index THEN s[k] ELSE s[k + 1]]

\* ---- construction ---------------------------------------------------------
Init ==
    /\ instance = FALSE
    /\ books = <<>>
    /\ loans = <<>>
    /\ emailService = "unset"
    /\ observers = <<>>
    /\ console = <<>>
    /\ emailed = <<>>
    /\ ret = Void
    /\ lastOp = "start"
    /\ scenario = NoScenario

\* Mutant: every call constructs a new LibraryManager.
GetInstanceAlwaysNew(service) ==
    /\ instance' = TRUE
    /\ emailService' = service
    /\ books' = <<>>
    /\ loans' = <<>>
    /\ observers' = <<>>
    /\ console' = <<>>
    /\ emailed' = <<>>
    /\ ret' = [kind |-> "instance", val |-> <<>>]
    /\ lastOp' = "getInstance"
    /\ scenario' = NoScenario

\* static getInstance(emailService): the constructor runs on the first call only.
GetInstance(service) ==
    /\ IF ~instance
       THEN /\ instance' = TRUE
            /\ emailService' = service
            /\ books' = <<>>
            /\ loans' = <<>>
            /\ observers' = <<>>
       ELSE UNCHANGED <<instance, emailService, books, loans, observers>>
    /\ console' = <<>>
    /\ emailed' = <<>>
    /\ ret' = [kind |-> "instance", val |-> <<>>]
    /\ lastOp' = "getInstance"
    /\ scenario' = NoScenario

\* ---- the loan, return, return sequence (lines 235-237) --------------------
\* stage 1: loanBook(ISBN, userID) has just created the only outstanding loan
\* of the pair; stage 2: a returnBook(ISBN, userID) followed it directly;
\* stage 3: a second returnBook(ISBN, userID) followed that one directly.
countLoans(ls, ISBN, userID) ==
    Cardinality({k \in 1..Len(ls) : ls[k].ISBN = ISBN /\ ls[k].userID = userID})

afterLoan(ISBN, userID, created) ==
    IF created /\ countLoans(loans, ISBN, userID) = 0
    THEN [stage |-> 1, ISBN |-> ISBN, userID |-> userID]
    ELSE NoScenario

afterReturn(ISBN, userID) ==
    IF scenario.stage \in {1, 2} /\ scenario.ISBN = ISBN /\ scenario.userID = userID
    THEN [scenario EXCEPT !.stage = scenario.stage + 1]
    ELSE NoScenario

\* ---- observers ------------------------------------------------------------
AddObserver(user) ==
    /\ instance
    /\ Len(observers) < MaxObservers
    /\ observers' = Append(observers, user)
    /\ console' = <<>>
    /\ emailed' = <<>>
    /\ ret' = Void
    /\ lastOp' = "addObserver"
    /\ scenario' = NoScenario
    /\ UNCHANGED <<instance, books, loans, emailService>>

RemoveObserver(user) ==
    /\ instance
    /\ IF indexOf(observers, user) # -1
       THEN observers' = splice1(observers, indexOf(observers, user))
       ELSE UNCHANGED observers
    /\ console' = <<>>
    /\ emailed' = <<>>
    /\ ret' = Void
    /\ lastOp' = "removeObserver"
    /\ scenario' = NoScenario
    /\ UNCHANGED <<instance, books, loans, emailService>>

\* User.update(bookTitle): one untagged console line naming the user.
update(user, bookTitle) == Line("LOG", <<"ha sido notificado sobre el nuevo libro">>,
                                <<user, bookTitle>>)

\* observers.forEach(observer => observer.update(bookTitle))
notifyObservers(os, bookTitle) == [k \in 1..Len(os) |-> update(os[k], bookTitle)]

NotifyObservers(bookTitle) ==
    /\ instance
    /\ console' = notifyObservers(observers, bookTitle)
    /\ emailed' = <<>>
    /\ ret' = Void
    /\ lastOp' = "notifyObservers"
    /\ scenario' = NoScenario
    /\ UNCHANGED <<instance, books, loans, emailService, observers>>

\* ---- books ----------------------------------------------------------------
\* Mutant: the uniqueness precondition is dropped.
AddBookNoCheck(title, author, ISBN) ==
    /\ instance
    /\ Len(books) < MaxBooks
    /\ books' = Append(books, Book(title, author, ISBN))
    /\ console' = <<Line("INFO", <<"Libro agregado">>, <<title, ISBN>>)>>
    /\ emailed' = <<>>
    /\ ret' = Void
    /\ lastOp' = "addBook"
    /\ scenario' = NoScenario
    /\ UNCHANGED <<instance, loans, emailService, observers>>

\* Mutant: a duplicate is reported but overwrites the stored record.
AddBookOverwrite(title, author, ISBN) ==
    /\ instance
    /\ ~someISBN(books, ISBN) => Len(books) < MaxBooks
    /\ IF someISBN(books, ISBN)
       THEN /\ console' = <<Line("ERROR", <<"El libro ya existe en la biblioteca">>,
                                 <<ISBN>>)>>
            /\ books' = [books EXCEPT ![findIndexISBN(books, ISBN) + 1] =
                                          Book(title, author, ISBN)]
       ELSE /\ books' = Append(books, Book(title, author, ISBN))
            /\ console' = <<Line("INFO", <<"Libro agregado">>, <<title, ISBN>>)>>
    /\ emailed' = <<>>
    /\ ret' = Void
    /\ lastOp' = "addBook"
    /\ scenario' = NoScenario
    /\ UNCHANGED <<instance, loans, emailService, observers>>

\* Mutant: the new book is put in front (unshift instead of push).
AddBookFront(title, author, ISBN) ==
    /\ instance
    /\ ~someISBN(books, ISBN) => Len(books) < MaxBooks
    /\ IF someISBN(books, ISBN)
       THEN /\ console' = <<Line("ERROR", <<"El libro ya existe en la biblioteca">>,
                                 <<ISBN>>)>>
            /\ UNCHANGED books
       ELSE /\ books' = <<Book(title, author, ISBN)>> \o books
            /\ console' = <<Line("INFO", <<"Libro agregado">>, <<title, ISBN>>)>>
    /\ emailed' = <<>>
    /\ ret' = Void
    /\ lastOp' = "addBook"
    /\ scenario' = NoScenario
    /\ UNCHANGED <<instance, loans, emailService, observers>>

AddBook(title, author, ISBN) ==
    /\ instance
    /\ ~someISBN(books, ISBN) => Len(books) < MaxBooks
    /\ IF someISBN(books, ISBN)
       THEN /\ console' = <<Line("ERROR", <<"El libro ya existe en la biblioteca">>,
                                 <<ISBN>>)>>
            /\ UNCHANGED books
       ELSE /\ books' = Append(books, Book(title, author, ISBN))
            /\ console' = <<Line("INFO", <<"Libro agregado">>, <<title, ISBN>>)>>
    /\ emailed' = <<>>
    /\ ret' = Void
    /\ lastOp' = "addBook"
    /\ scenario' = NoScenario
    /\ UNCHANGED <<instance, loans, emailService, observers>>

\* Mutant: splice(index) without a delete count drops the tail of the array.
RemoveBookSpliceTail(ISBN) ==
    /\ instance
    /\ LET index == findIndexISBN(books, ISBN) IN
       IF index # -1
       THEN /\ books' = SubSeq(books, 1, index)
            /\ console' = <<Line("INFO", <<"Libro eliminado">>,
                                 <<books[index + 1].title, ISBN>>)>>
       ELSE /\ console' = <<Line("WARNING",
                                 <<"Intento de eliminar un libro inexistente">>,
                                 <<ISBN>>)>>
            /\ UNCHANGED books
    /\ emailed' = <<>>
    /\ ret' = Void
    /\ lastOp' = "removeBook"
    /\ scenario' = NoScenario
    /\ UNCHANGED <<instance, loans, emailService, observers>>

\* Mutant: a missing book is reported with console.error.
RemoveBookWrongLevel(ISBN) ==
    /\ instance
    /\ LET index == findIndexISBN(books, ISBN) IN
       IF index # -1
       THEN /\ books' = splice1(books, index)
            /\ console' = <<Line("INFO", <<"Libro eliminado">>,
                                 <<books[index + 1].title, ISBN>>)>>
       ELSE /\ console' = <<Line("ERROR",
                                 <<"Intento de eliminar un libro inexistente">>,
                                 <<ISBN>>)>>
            /\ UNCHANGED books
    /\ emailed' = <<>>
    /\ ret' = Void
    /\ lastOp' = "removeBook"
    /\ scenario' = NoScenario
    /\ UNCHANGED <<instance, loans, emailService, observers>>

\* Mutant: removing a book also deletes the loans of that book.
RemoveBookCascade(ISBN) ==
    /\ instance
    /\ LET index == findIndexISBN(books, ISBN) IN
       IF index # -1
       THEN /\ books' = splice1(books, index)
            /\ loans' = SelectSeq(loans, LAMBDA l : l.ISBN # ISBN)
            /\ console' = <<Line("INFO", <<"Libro eliminado">>,
                                 <<books[index + 1].title, ISBN>>)>>
       ELSE /\ console' = <<Line("WARNING",
                                 <<"Intento de eliminar un libro inexistente">>,
                                 <<ISBN>>)>>
            /\ UNCHANGED <<books, loans>>
    /\ emailed' = <<>>
    /\ ret' = Void
    /\ lastOp' = "removeBook"
    /\ scenario' = NoScenario
    /\ UNCHANGED <<instance, emailService, observers>>

RemoveBook(ISBN) ==
    /\ instance
    /\ LET index == findIndexISBN(books, ISBN) IN
       IF index # -1
       THEN /\ books' = splice1(books, index)
            /\ console' = <<Line("INFO", <<"Libro eliminado">>,
                                 <<books[index + 1].title, ISBN>>)>>
       ELSE /\ console' = <<Line("WARNING",
                                 <<"Intento de eliminar un libro inexistente">>,
                                 <<ISBN>>)>>
            /\ UNCHANGED books
    /\ emailed' = <<>>
    /\ ret' = Void
    /\ lastOp' = "removeBook"
    /\ scenario' = NoScenario
    /\ UNCHANGED <<instance, loans, emailService, observers>>

SearchByISBN(ISBN) ==
    /\ instance
    /\ ret' = findISBN(books, ISBN)
    /\ console' = <<>>
    /\ emailed' = <<>>
    /\ lastOp' = "searchByISBN"
    /\ scenario' = NoScenario
    /\ UNCHANGED <<instance, books, loans, emailService, observers>>

\* ---- loans ----------------------------------------------------------------
\* private sendEmail(userID, message): what it writes to the console and what
\* it sends through this.emailService.
sendEmail(userID, message) ==
    [console |-> <<Line("LOG", <<"Enviando email a", message.text>>,
                        <<userID>> \o message.args)>>,
     emailed |-> <<>>]

\* Mutant: the loan is recorded whether or not the book is found.
LoanBookNoCheck(ISBN, userID, date) ==
    /\ instance
    /\ Len(loans) < MaxLoans
    /\ loans' = Append(loans, Loan(ISBN, userID, date))
    /\ LET book == findISBN(books, ISBN) IN
       IF book # Undefined
       THEN LET mail == sendEmail(userID,
                            Message("Has solicitado el libro", <<book.val[1].title>>))
            IN /\ console' = <<Line("INFO", <<"Prestamo registrado">>,
                                    <<book.val[1].title, userID>>)>> \o mail.console
               /\ emailed' = mail.emailed
       ELSE /\ console' = <<Line("WARNING",
                                 <<"Intento de prestamo de un libro inexistente">>,
                                 <<ISBN>>)>>
            /\ emailed' = <<>>
    /\ ret' = Void
    /\ lastOp' = "loanBook"
    /\ scenario' = afterLoan(ISBN, userID, someISBN(books, ISBN))
    /\ UNCHANGED <<instance, books, emailService, observers>>

\* Mutant: a book that is already on loan is not lent again.
LoanBookOneCopy(ISBN, userID, date) ==
    /\ instance
    /\ someISBN(books, ISBN) => Len(loans) < MaxLoans
    /\ LET book == findISBN(books, ISBN) IN
       IF book # Undefined /\ ~(\E k \in 1..Len(loans) : loans[k].ISBN = ISBN)
       THEN LET mail == sendEmail(userID,
                            Message("Has solicitado el libro", <<book.val[1].title>>))
            IN /\ loans' = Append(loans, Loan(ISBN, userID, date))
               /\ console' = <<Line("INFO", <<"Prestamo registrado">>,
                                    <<book.val[1].title, userID>>)>> \o mail.console
               /\ emailed' = mail.emailed
       ELSE /\ console' = <<Line("WARNING",
                                 <<"Intento de prestamo de un libro inexistente">>,
                                 <<ISBN>>)>>
            /\ emailed' = <<>>
            /\ UNCHANGED loans
    /\ ret' = Void
    /\ lastOp' = "loanBook"
    /\ scenario' = afterLoan(ISBN, userID,
                             someISBN(books, ISBN)
                             /\ ~(\E k \in 1..Len(loans) : loans[k].ISBN = ISBN))
    /\ UNCHANGED <<instance, books, emailService, observers>>

\* date is what new Date() yields during the call.
LoanBook(ISBN, userID, date) ==
    /\ instance
    /\ someISBN(books, ISBN) => Len(loans) < MaxLoans
    /\ LET book == findISBN(books, ISBN) IN
       IF book # Undefined
       THEN LET mail == sendEmail(userID,
                            Message("Has solicitado el libro", <<book.val[1].title>>))
            IN /\ loans' = Append(loans, Loan(ISBN, userID, date))
               /\ console' = <<Line("INFO", <<"Prestamo registrado">>,
                                    <<book.val[1].title, userID>>)>> \o mail.console
               /\ emailed' = mail.emailed
       ELSE /\ console' = <<Line("WARNING",
                                 <<"Intento de prestamo de un libro inexistente">>,
                                 <<ISBN>>)>>
            /\ emailed' = <<>>
            /\ UNCHANGED loans
    /\ ret' = Void
    /\ lastOp' = "loanBook"
    /\ scenario' = afterLoan(ISBN, userID, someISBN(books, ISBN))
    /\ UNCHANGED <<instance, books, emailService, observers>>

\* What returnBook writes and sends once it has found the loan at index.
returned(ISBN, userID, index) ==
    LET removedLoan == loans[index + 1]
        registered == Line("INFO", <<"Devolucion registrada">>,
                           <<dateString(removedLoan.date), userID, ISBN>>)
        mail == sendEmail(userID, Message("Has devuelto el libro. Gracias!", <<ISBN>>))
    IN IF findISBN(books, ISBN) # Undefined
       THEN [console |-> <<registered>> \o mail.console, emailed |-> mail.emailed]
       ELSE [console |-> <<registered,
                           Line("ERROR", <<"El libro no se encontro en la biblioteca">>,
                                <<ISBN>>)>>,
             emailed |-> <<>>]

notLoaned(ISBN, userID) ==
    <<Line("WARNING", <<"Intento de devolucion de un libro no prestado">>,
           <<ISBN, userID>>)>>

\* Mutant: every loan of the pair is removed (a filter instead of a splice).
ReturnBookAll(ISBN, userID) ==
    /\ instance
    /\ LET index == findIndexLoan(loans, ISBN, userID) IN
       IF index # -1
       THEN /\ loans' = SelectSeq(loans,
                            LAMBDA l : ~(l.ISBN = ISBN /\ l.userID = userID))
            /\ console' = returned(ISBN, userID, index).console
            /\ emailed' = returned(ISBN, userID, index).emailed
       ELSE /\ console' = notLoaned(ISBN, userID)
            /\ emailed' = <<>>
            /\ UNCHANGED loans
    /\ ret' = Void
    /\ lastOp' = "returnBook"
    /\ scenario' = afterReturn(ISBN, userID)
    /\ UNCHANGED <<instance, books, emailService, observers>>

\* Mutant: the return is reported but the loan record stays.
ReturnBookKeepsLoan(ISBN, userID) ==
    /\ instance
    /\ LET index == findIndexLoan(loans, ISBN, userID) IN
       IF index # -1
       THEN /\ console' = returned(ISBN, userID, index).console
            /\ emailed' = returned(ISBN, userID, index).emailed
            /\ UNCHANGED loans
       ELSE /\ console' = notLoaned(ISBN, userID)
            /\ emailed' = <<>>
            /\ UNCHANGED loans
    /\ ret' = Void
    /\ lastOp' = "returnBook"
    /\ scenario' = afterReturn(ISBN, userID)
    /\ UNCHANGED <<instance, books, emailService, observers>>

\* Mutant: the book is looked up first and a missing book aborts the return.
ReturnBookRequiresBook(ISBN, userID) ==
    /\ instance
    /\ LET index == findIndexLoan(loans, ISBN, userID) IN
       IF index # -1 /\ someISBN(books, ISBN)
       THEN /\ loans' = splice1(loans, index)
            /\ console' = returned(ISBN, userID, index).console
            /\ emailed' = returned(ISBN, userID, index).emailed
       ELSE /\ console' = IF index # -1
                          THEN <<Line("ERROR",
                                      <<"El libro no se encontro en la biblioteca">>,
                                      <<ISBN>>)>>
                          ELSE notLoaned(ISBN, userID)
            /\ emailed' = <<>>
            /\ UNCHANGED loans
    /\ ret' = Void
    /\ lastOp' = "returnBook"
    /\ scenario' = afterReturn(ISBN, userID)
    /\ UNCHANGED <<instance, books, emailService, observers>>

ReturnBook(ISBN, userID) ==
    /\ instance
    /\ LET index == findIndexLoan(loans, ISBN, userID) IN
       IF index # -1
       THEN /\ loans' = splice1(loans, index)
            /\ console' = returned(ISBN, userID, index).console
            /\ emailed' = returned(ISBN, userID, index).emailed
       ELSE /\ console' = notLoaned(ISBN, userID)
            /\ emailed' = <<>>
            /\ UNCHANGED loans
    /\ ret' = Void
    /\ lastOp' = "returnBook"
    /\ scenario' = afterReturn(ISBN, userID)
    /\ UNCHANGED <<instance, books, emailService, observers>>

\* ---- queries --------------------------------------------------------------
\* String.prototype.includes: q occurs in s as a contiguous run of characters
\* (the empty string occurs in every string).
includes(s, q) ==
    \E start \in 0..(Len(s) - Len(q)) : \A k \in 1..Len(q) : s[start + k] = q[k]

\* `${results.length}`: a number rendered into a template string.
numberString(n) == <<n>>

Books(bs) == [kind |-> "books", val |-> bs]

SearchByTitle(title) ==
    /\ instance
    /\ ret' = Books(SelectSeq(books, LAMBDA book : includes(book.title, title)))
    /\ console' = <<>>
    /\ emailed' = <<>>
    /\ lastOp' = "searchByTitle"
    /\ scenario' = NoScenario
    /\ UNCHANGED <<instance, books, loans, emailService, observers>>

SearchByAuthor(author) ==
    /\ instance
    /\ ret' = Books(SelectSeq(books, LAMBDA book : includes(book.author, author)))
    /\ console' = <<>>
    /\ emailed' = <<>>
    /\ lastOp' = "searchByAuthor"
    /\ scenario' = NoScenario
    /\ UNCHANGED <<instance, books, loans, emailService, observers>>

\* What search writes for its results.
searched(query, results) ==
    IF Len(results) > 0
    THEN <<Line("INFO", <<"Busqueda exitosa. Resultados encontrados">>,
                <<query, numberString(Len(results))>>)>>
    ELSE <<Line("INFO", <<"Busqueda no produjo resultados">>, <<query>>)>>

\* Mutant: the three criteria are searched one after the other and the
\* results concatenated.
SearchConcat(query) ==
    /\ instance
    /\ LET results ==
             SelectSeq(books, LAMBDA book : includes(book.title, query))
             \o SelectSeq(books, LAMBDA book : includes(book.author, query))
             \o SelectSeq(books, LAMBDA book : book.ISBN = query)
       IN /\ ret' = Books(results)
          /\ console' = searched(query, results)
    /\ emailed' = <<>>
    /\ lastOp' = "search"
    /\ scenario' = NoScenario
    /\ UNCHANGED <<instance, books, loans, emailService, observers>>

\* Mutant: a search without results is reported with console.error.
SearchErrorOnEmpty(query) ==
    /\ instance
    /\ LET results ==
             SelectSeq(books, LAMBDA book : \/ includes(book.title, query)
                                            \/ includes(book.author, query)
                                            \/ book.ISBN = query)
       IN /\ ret' = Books(results)
          /\ console' = IF Len(results) > 0
                        THEN searched(query, results)
                        ELSE <<Line("ERROR", <<"Busqueda no produjo resultados">>,
                                    <<query>>)>>
    /\ emailed' = <<>>
    /\ lastOp' = "search"
    /\ scenario' = NoScenario
    /\ UNCHANGED <<instance, books, loans, emailService, observers>>

Search(query) ==
    /\ instance
    /\ LET results ==
             SelectSeq(books, LAMBDA book : \/ includes(book.title, query)
                                            \/ includes(book.author, query)
                                            \/ book.ISBN = query)
       IN /\ ret' = Books(results)
          /\ console' = searched(query, results)
    /\ emailed' = <<>>
    /\ lastOp' = "search"
    /\ scenario' = NoScenario
    /\ UNCHANGED <<instance, books, loans, emailService, observers>>

PrintAllBooks ==
    /\ instance
    /\ console' = [k \in 1..Len(books) |->
                     Line("LOG", <<"Titulo, Autor, ISBN">>,
                          <<books[k].title, books[k].author, books[k].ISBN>>)]
    /\ emailed' = <<>>
    /\ ret' = Void
    /\ lastOp' = "printAllBooks"
    /\ scenario' = NoScenario
    /\ UNCHANGED <<instance, books, loans, emailService, observers>>

PrintAllLoans ==
    /\ instance
    /\ console' = [k \in 1..Len(loans) |->
                     Line("LOG", <<"ISBN, Usuario, Fecha">>,
                          <<loans[k].ISBN, loans[k].userID, dateString(loans[k].date)>>)]
    /\ emailed' = <<>>
    /\ ret' = Void
    /\ lastOp' = "printAllLoans"
    /\ scenario' = NoScenario
    /\ UNCHANGED <<instance, books, loans, emailService, observers>>

\* ---- the specification ------------------------------------------------------
Next ==
    \/ \E service \in EmailServices : GetInstance(service)
    \/ \E user \in Users : AddObserver(user)
    \/ \E user \in Users : RemoveObserver(user)
    \/ \E bookTitle \in Titles : NotifyObservers(bookTitle)
    \/ \E work \in Works, ISBN \in ISBNs :
          AddBook(work.title, work.author, ISBN)
    \/ \E ISBN \in ISBNs : RemoveBook(ISBN)
    \/ \E ISBN \in ISBNs : SearchByISBN(ISBN)
    \/ \E ISBN \in ISBNs, userID \in UserIDs, date \in Dates :
          LoanBook(ISBN, userID, date)
    \/ \E ISBN \in ISBNs, userID \in UserIDs : ReturnBook(ISBN, userID)

Spec == Init /\ [][Next]_vars

\* ---- the catalog alone: addBook, removeBook and the queries -------------------
\* Titles, authors and ISBNs chosen so that a query can match a book by its
\* title only, by its author only, by its ISBN only, by several fields or not
\* at all.
CatalogISBNs == {<<1>>, <<2>>, <<3>>}
CatalogWorks == {[title |-> <<1, 2>>, author |-> <<3>>],
                 [title |-> <<4>>, author |-> <<2, 1>>],
                 [title |-> <<4>>, author |-> <<4>>]}
Queries == {<<>>, <<1>>, <<1, 2>>, <<4>>, <<5>>}

NextCatalog ==
    \/ \E service \in EmailServices : GetInstance(service)
    \/ \E work \in CatalogWorks, ISBN \in CatalogISBNs :
          AddBook(work.title, work.author, ISBN)
    \/ \E ISBN \in CatalogISBNs : RemoveBook(ISBN)
    \/ \E ISBN \in CatalogISBNs : SearchByISBN(ISBN)
    \/ \E title \in Queries : SearchByTitle(title)
    \/ \E author \in Queries : SearchByAuthor(author)
    \/ \E query \in Queries : Search(query)
    \/ PrintAllBooks

SpecCatalog == Init /\ [][NextCatalog]_vars

\* ---- every operation ----------------------------------------------------------
FrameQueries == {<<>>, <<1, 2>>}

NextAll ==
    \/ Next
    \/ \E title \in FrameQueries : SearchByTitle(title)
    \/ \E author \in FrameQueries : SearchByAuthor(author)
    \/ \E query \in FrameQueries : Search(query)
    \/ PrintAllBooks
    \/ PrintAllLoans

SpecAll == Init /\ [][NextAll]_vars

\* ---- vocabulary of the properties ------------------------------------------
\* s without its k-th element (1-based), stated with SubSeq.
without(s, k) == SubSeq(s, 1, k - 1) \o SubSeq(s, k + 1, Len(s))

matches(l, ISBN, userID) == l.ISBN = ISBN /\ l.userID = userID

\* k is the lowest position of a loan of the pair.
firstMatch(ls, k, ISBN, userID) ==
    /\ k \in 1..Len(ls)
    /\ matches(ls[k], ISBN, userID)
    /\ \A j \in 1..(k - 1) : ~matches(ls[j], ISBN, userID)

hasLoan(ls, ISBN, userID) == \E k \in 1..Len(ls) : matches(ls[k], ISBN, userID)

inCatalog(bs, ISBN) == \E k \in 1..Len(bs) : bs[k].ISBN = ISBN

\* l is the line User.update writes.
isUpdate(l) == l.text = <<"ha sido notificado sobre el nuevo libro">>

levels(c) == [k \in 1..Len(c) |-> c[k].level]

hasLevel(c, level) == \E k \in 1..Len(c) : c[k].level = level

\* ---- C1 -------------------------------------------------------------------
\* C1: in every reachable state the books collection holds at most one record
\* per ISBN value.
C1_UniqueISBN ==
    \A j, k \in 1..Len(books) : j # k => books[j].ISBN # books[k].ISBN

\* A duplicate addBook has just been rejected in a catalog holding two books.
C1_Witness ==
    /\ lastOp = "addBook"
    /\ levels(console) = <<"ERROR">>
    /\ Len(books) = 2

\* ---- C2 -------------------------------------------------------------------
\* C2: addBook with an ISBN already in the catalog writes one error-level line
\* and leaves books (the stored title and author included), loans and observers
\* as they were.
C2_DuplicateAddRejected ==
    [][\A work \in Works, ISBN \in ISBNs :
         (AddBook(work.title, work.author, ISBN) /\ inCatalog(books, ISBN)) =>
            /\ books' = books
            /\ loans' = loans
            /\ observers' = observers
            /\ levels(console') = <<"ERROR">>]_vars

\* A duplicate addBook was rejected while a loan and an observer existed.
C2_Witness ==
    /\ lastOp = "addBook"
    /\ levels(console) = <<"ERROR">>
    /\ Len(loans) > 0
    /\ Len(observers) > 0

\* ---- C3 -------------------------------------------------------------------
\* C3: an addBook that inserts a new book notifies every registered listener
\* with the book's title, once each and in registration order, before it
\* returns: the update lines of the call are those of notifyObservers.
C3_AddBookNotifies ==
    [][\A work \in Works, ISBN \in ISBNs :
         (AddBook(work.title, work.author, ISBN) /\ ~inCatalog(books, ISBN)) =>
            SelectSeq(console', isUpdate)
               = [k \in 1..Len(observers) |->
                     Line("LOG", <<"ha sido notificado sobre el nuevo libro">>,
                          <<observers[k], work.title>>)]]_vars

\* ---- C4 -------------------------------------------------------------------
\* C4: loanBook of a book in the catalog appends exactly one loan record
\* (isbn, userId) at the end of loans and makes exactly one sendEmail call on
\* the injected email service, addressed to userId.
C4_LoanAppendsAndEmails ==
    [][\A ISBN \in ISBNs, userID \in UserIDs, date \in Dates :
         (LoanBook(ISBN, userID, date) /\ inCatalog(books, ISBN)) =>
            /\ Len(loans') = Len(loans) + 1
            /\ SubSeq(loans', 1, Len(loans)) = loans
            /\ matches(loans'[Len(loans')], ISBN, userID)
            /\ Len(emailed') = 1
            /\ emailed'[1].userID = userID]_vars

\* ---- C5 -------------------------------------------------------------------
\* C5: loanBook of an ISBN that is not in the catalog writes one warning-level
\* line, leaves loans and books as they were and makes no call on the email
\* service.
C5_LoanUnknownIsNoOp ==
    [][\A ISBN \in ISBNs, userID \in UserIDs, date \in Dates :
         (LoanBook(ISBN, userID, date) /\ ~inCatalog(books, ISBN)) =>
            /\ loans' = loans
            /\ books' = books
            /\ emailed' = <<>>
            /\ levels(console') = <<"WARNING">>]_vars

\* A loanBook of an unknown ISBN was refused while another loan was outstanding.
C5_Witness ==
    /\ lastOp = "loanBook"
    /\ levels(console) = <<"WARNING">>
    /\ Len(loans) > 0
    /\ Len(books) > 0

\* ---- C6 -------------------------------------------------------------------
\* C6: a returnBook that finds a loan of (isbn, userId) removes exactly the
\* lowest-index one and keeps every other record in place and in order; a
\* returnBook that finds none leaves loans unchanged and writes one
\* warning-level line.
C6_ReturnRemovesFirstMatch ==
    [][\A ISBN \in ISBNs, userID \in UserIDs :
         ReturnBook(ISBN, userID) =>
            IF hasLoan(loans, ISBN, userID)
            THEN \E k \in 1..Len(loans) :
                    /\ firstMatch(loans, k, ISBN, userID)
                    /\ loans' = without(loans, k)
            ELSE /\ loans' = loans
                 /\ levels(console') = <<"WARNING">>]_vars

\* A returnBook removed the earlier of two loans of one pair: the one that
\* remains is of the same pair and has another date than the one reported.
C6_Witness ==
    /\ lastOp = "returnBook"
    /\ Len(console) > 0
    /\ console[1].level = "INFO"
    /\ Len(loans) = 1
    /\ loans[1].userID = console[1].args[2]
    /\ loans[1].ISBN = console[1].args[3]
    /\ dateString(loans[1].date) # console[1].args[1]

\* ---- C7 -------------------------------------------------------------------
\* C7: after loanBook(isbn, u) from a state with no outstanding loan of the
\* pair, the first returnBook(isbn, u) removes the loan, and the second finds
\* none: it writes one warning-level line, leaves books and loans unchanged and
\* makes no call on the email service.
C7_LoanReturnReturn ==
    [][\A ISBN \in ISBNs, userID \in UserIDs :
         (/\ ReturnBook(ISBN, userID)
          /\ scenario.ISBN = ISBN
          /\ scenario.userID = userID) =>
            /\ scenario.stage = 1 =>
                 /\ Len(loans') = Len(loans) - 1
                 /\ ~hasLoan(loans', ISBN, userID)
                 /\ \E k \in 1..Len(loans) : loans' = without(loans, k)
            /\ scenario.stage = 2 =>
                 /\ loans' = loans
                 /\ books' = books
                 /\ emailed' = <<>>
                 /\ levels(console') = <<"WARNING">>]_vars

\* The second returnBook of the sequence has been made.
C7_Witness ==
    /\ scenario.stage = 3
    /\ lastOp = "returnBook"

\* ---- C8 -------------------------------------------------------------------
\* C8: a returnBook for a loan whose book has been removed from the catalog
\* still removes the loan record and writes an error-level line.
C8_ReturnAfterRemoveBook ==
    [][\A ISBN \in ISBNs, userID \in UserIDs :
         (/\ ReturnBook(ISBN, userID)
          /\ hasLoan(loans, ISBN, userID)
          /\ ~inCatalog(books, ISBN)) =>
            /\ Len(loans') = Len(loans) - 1
            /\ \E k \in 1..Len(loans) :
                  matches(loans[k], ISBN, userID) /\ loans' = without(loans, k)
            /\ hasLevel(console', "ERROR")]_vars

\* A loan was returned although its book is no longer in the catalog.
C8_Witness ==
    /\ lastOp = "returnBook"
    /\ hasLevel(console, "ERROR")
    /\ hasLevel(console, "INFO")
    /\ ~inCatalog(books, console[1].args[3])

\* ---- C9 -------------------------------------------------------------------
\* C9: once returnBook has removed a loan, a book still in the catalog means
\* an informational line and one thank-you sendEmail call on the email service
\* for userId; a book no longer in the catalog means an error-level line, no
\* informational line and no sendEmail call.
C9_ReturnNotificationPath ==
    [][\A ISBN \in ISBNs, userID \in UserIDs :
         (ReturnBook(ISBN, userID) /\ hasLoan(loans, ISBN, userID)) =>
            IF inCatalog(books, ISBN)
            THEN /\ hasLevel(console', "INFO")
                 /\ Len(emailed') = 1
                 /\ emailed'[1].userID = userID
                 /\ emailed'[1].message.text = "Has devuelto el libro. Gracias!"
            ELSE /\ hasLevel(console', "ERROR")
                 /\ ~hasLevel(console', "INFO")
                 /\ emailed' = <<>>]_vars

\* ---- C10 ------------------------------------------------------------------
\* C10: removeBook of an ISBN in the catalog removes exactly that record and
\* keeps the others in place and in order, and a searchByISBN of it made next
\* returns undefined; removeBook of an ISBN not in the catalog writes one
\* warning-level line and leaves books unchanged.
C10_RemoveBook ==
    [][\A ISBN \in ISBNs :
         /\ RemoveBook(ISBN) =>
              IF inCatalog(books, ISBN)
              THEN /\ \E k \in 1..Len(books) :
                         books[k].ISBN = ISBN /\ books' = without(books, k)
                   /\ ~inCatalog(books', ISBN)
              ELSE /\ books' = books
                   /\ levels(console') = <<"WARNING">>
         /\ (/\ lastOp = "removeBook"
             /\ levels(console) = <<"INFO">>
             /\ console[1].args[2] = ISBN
             /\ SearchByISBN(ISBN)) => ret' = Undefined]_vars

\* removeBook has removed one of two books and the other one is still there.
C10_Witness ==
    /\ lastOp = "removeBook"
    /\ levels(console) = <<"INFO">>
    /\ Len(books) = 1
    /\ Len(loans) > 0

\* ---- vocabulary of the query properties ---------------------------------------
\* q is a contiguous piece of s (the empty piece included).
occursIn(q, s) ==
    \E i \in 1..(Len(s) + 1) : \E j \in (i - 1)..Len(s) : SubSeq(s, i, j) = q

\* r holds exactly the elements of bs that satisfy P, each once, in the order
\* they have in bs.
isSelection(r, bs, P(_)) ==
    LET M == {j \in 1..Len(bs) : P(bs[j])}
    IN /\ Len(r) = Cardinality(M)
       /\ \A j \in M : r[Cardinality({m \in M : m <= j})] = bs[j]

matchesQuery(book, query) ==
    \/ occursIn(query, book.title)
    \/ occursIn(query, book.author)
    \/ book.ISBN = query

\* ---- C11 ------------------------------------------------------------------
\* C11: search(query) returns exactly the books whose title contains query, or
\* whose author contains query, or whose ISBN equals query, each once and in
\* catalog order, and leaves books, loans and observers as they were.
C11_SearchUnion ==
    [][\A query \in Queries :
         Search(query) =>
            /\ ret'.kind = "books"
            /\ isSelection(ret'.val, books, LAMBDA book : matchesQuery(book, query))
            /\ books' = books
            /\ loans' = loans
            /\ observers' = observers]_vars

\* A search has returned two of three books, one of which matches the query
\* both by its title and by its ISBN.
C11_Witness ==
    /\ lastOp = "search"
    /\ Len(books) = 3
    /\ Len(ret.val) = 2
    /\ \E k \in 1..2 :
          /\ occursIn(console[1].args[1], ret.val[k].title)
          /\ ret.val[k].ISBN = console[1].args[1]

\* ---- C12 ------------------------------------------------------------------
\* C12 as stated: search with the empty string, or with a query that matches
\* no book, returns an empty sequence, writes no error-level line and returns
\* normally, whatever the catalog holds.
C12_EmptyQueryOrNoMatchIsEmpty ==
    [][\A query \in Queries :
         (/\ Search(query)
          /\ \/ query = <<>>
             \/ \A k \in 1..Len(books) : ~matchesQuery(books[k], query)) =>
            /\ ret' = Books(<<>>)
            /\ ~hasLevel(console', "ERROR")]_vars

\* C12 as amended: search with a query that matches no book returns an empty
\* sequence, and search with the empty string returns every book of the
\* catalog in catalog order; neither writes an error-level line and both
\* return normally.
C12_NoMatchIsEmptyAndEmptyQueryIsAll ==
    [][\A query \in Queries :
         Search(query) =>
            /\ (\A k \in 1..Len(books) : ~matchesQuery(books[k], query)) =>
                  /\ ret' = Books(<<>>)
                  /\ ~hasLevel(console', "ERROR")
            /\ query = <<>> =>
                  /\ ret' = Books(books)
                  /\ ~hasLevel(console', "ERROR")]_vars

\* search("") has returned all the books of a catalog of two or more.
C12_Witness ==
    /\ lastOp = "search"
    /\ console[1].args[1] = <<>>
    /\ Len(books) >= 2
    /\ ret = Books(books)

\* ---- C13 ------------------------------------------------------------------
registered(os, user) == \E k \in 1..Len(os) : os[k] = user

\* C13: addObserver of a listener that is already registered leaves the
\* observer list unchanged, so each listener is in the list at most once and
\* one removeObserver unregisters it; removeObserver of a listener that is not
\* registered leaves the list unchanged and writes nothing.
C13_RegistrationIdempotent ==
    [][\A user \in Users :
         /\ (AddObserver(user) /\ registered(observers, user)) =>
               observers' = observers
         /\ (AddObserver(user) \/ RemoveObserver(user)) =>
               \A j, k \in 1..Len(observers') :
                   j # k => observers'[j] # observers'[k]
         /\ RemoveObserver(user) => ~registered(observers', user)
         /\ (RemoveObserver(user) /\ ~registered(observers, user)) =>
               /\ observers' = observers
               /\ console' = <<>>]_vars

\* ---- C14 ------------------------------------------------------------------
\* C14: once the instance exists, no call replaces it or its email service,
\* and a getInstance call, whatever its argument, returns the instance with
\* its books, loans and observers as they were; the first getInstance call
\* gives the instance the email service it is passed.
C14_GetInstanceReuses ==
    [][/\ instance => (instance' /\ emailService' = emailService)
       /\ \A service \in EmailServices :
            GetInstance(service) =>
               /\ instance'
               /\ ret'.kind = "instance"
               /\ ~instance => emailService' = service
               /\ instance =>
                     /\ books' = books
                     /\ loans' = loans
                     /\ observers' = observers]_vars

\* getInstance has been called on a catalog that holds a book, a loan and an
\* observer.
C14_Witness ==
    /\ lastOp = "getInstance"
    /\ Len(books) > 0
    /\ Len(loans) > 0
    /\ Len(observers) > 0

\* ---- C15 ------------------------------------------------------------------
\* C15: a loan record enters the loans collection only as the last element,
\* one at a time, in a step that starts with a book of its ISBN in the
\* catalog; every other record of the collection was in it before the step.
C15_LoanCreatedWithBookPresent ==
    [][/\ Len(loans') <= Len(loans) + 1
       /\ Len(loans') = Len(loans) + 1 =>
             /\ SubSeq(loans', 1, Len(loans)) = loans
             /\ inCatalog(books, loans'[Len(loans')].ISBN)
       /\ Len(loans') <= Len(loans) =>
             \A k \in 1..Len(loans') : \E j \in 1..Len(loans) : loans'[k] = loans[j]]_vars

\* A loan is outstanding whose book has just been removed from the catalog.
C15_Witness ==
    /\ lastOp = "removeBook"
    /\ levels(console) = <<"INFO">>
    /\ \E k \in 1..Len(loans) :
          loans[k].ISBN = console[1].args[2] /\ ~inCatalog(books, loans[k].ISBN)

\* ---- C16 ------------------------------------------------------------------
\* C16: loanBook of a book in the catalog adds one record at the end of loans
\* and leaves the earlier records untouched also when a loan of the same
\* (isbn, user) or of the same isbn to another user is outstanding.
C16_LoanDespiteOutstandingLoans ==
    [][\A ISBN \in ISBNs, userID \in UserIDs, date \in Dates :
         (/\ LoanBook(ISBN, userID, date)
          /\ inCatalog(books, ISBN)
          /\ \E k \in 1..Len(loans) : loans[k].ISBN = ISBN) =>
            /\ Len(loans') = Len(loans) + 1
            /\ SubSeq(loans', 1, Len(loans)) = loans
            /\ loans'[Len(loans')] = Loan(ISBN, userID, date)]_vars

\* loanBook has just added a second loan of the same book to the same user.
C16_Witness ==
    /\ lastOp = "loanBook"
    /\ hasLevel(console, "INFO")
    /\ Len(loans) = 2
    /\ loans[1].ISBN = loans[2].ISBN
    /\ loans[1].userID = loans[2].userID

\* ---- C17 ------------------------------------------------------------------
NormalReturns == {"void", "undefined", "book", "books", "instance"}

\* C17: every call returns normally; addBook of an ISBN in the catalog writes
\* exactly one line, error-level; removeBook and loanBook of an ISBN not in the
\* catalog and returnBook without a matching loan write exactly one line,
\* warning-level.
C17_FailurePathsReturnNormally ==
    [][/\ ret'.kind \in NormalReturns
       /\ \A work \in Works, ISBN \in ISBNs :
            (/\ lastOp' = "addBook"
             /\ inCatalog(books, ISBN)
             /\ AddBook(work.title, work.author, ISBN)) =>
               levels(console') = <<"ERROR">> /\ ret' = Void
       /\ \A ISBN \in ISBNs :
            (/\ lastOp' = "removeBook"
             /\ ~inCatalog(books, ISBN)
             /\ RemoveBook(ISBN)) =>
               levels(console') = <<"WARNING">> /\ ret' = Void
       /\ \A ISBN \in ISBNs, userID \in UserIDs, date \in Dates :
            (/\ lastOp' = "loanBook"
             /\ ~inCatalog(books, ISBN)
             /\ LoanBook(ISBN, userID, date)) =>
               levels(console') = <<"WARNING">> /\ ret' = Void
       /\ \A ISBN \in ISBNs, userID \in UserIDs :
            (/\ lastOp' = "returnBook"
             /\ ~hasLoan(loans, ISBN, userID)
             /\ ReturnBook(ISBN, userID)) =>
               levels(console') = <<"WARNING">> /\ ret' = Void]_vars

\* removeBook of an unknown ISBN has returned with its warning while books
\* and loans existed.
C17_Witness ==
    /\ lastOp = "removeBook"
    /\ levels(console) = <<"WARNING">>
    /\ ret = Void
    /\ Len(books) > 0
    /\ Len(loans) > 0

\* ---- C18 ------------------------------------------------------------------
\* C18: addBook, removeBook, addObserver and removeObserver never change
\* loans; loanBook and returnBook never change books or observers; the three
\* searchBy calls, search, printAllBooks and printAllLoans change none of
\* books, loans and observers.
C18_FrameConditions ==
    [][/\ lastOp' \in {"addBook", "removeBook", "addObserver", "removeObserver"} =>
             loans' = loans
       /\ lastOp' \in {"loanBook", "returnBook"} =>
             books' = books /\ observers' = observers
       /\ lastOp' \in {"searchByTitle", "searchByAuthor", "searchByISBN", "search",
                       "printAllBooks", "printAllLoans"} =>
             books' = books /\ loans' = loans /\ observers' = observers]_vars

\* removeBook has removed a book of which two loans are outstanding, and both
\* are still there.
C18_Witness ==
    /\ lastOp = "removeBook"
    /\ levels(console) = <<"INFO">>
    /\ Len(loans) = 2
    /\ \A k \in 1..2 : loans[k].ISBN = console[1].args[2]

\* ---- C19 ------------------------------------------------------------------
\* The step is a loanBook(ISBN, userID) that finds its book.
lends(ISBN, userID) ==
    /\ lastOp' = "loanBook"
    /\ inCatalog(books, ISBN)
    /\ \E date \in Dates : LoanBook(ISBN, userID, date)

\* The step is a returnBook(ISBN, userID) that finds a loan of the pair.
takesBack(ISBN, userID) ==
    /\ lastOp' = "returnBook"
    /\ hasLoan(loans, ISBN, userID)
    /\ ReturnBook(ISBN, userID)

\* C19: loans starts empty, and in every step the number of records of each
\* (isbn, userId) pair, and the number of all records, changes by +1 when the
\* step is a loanBook of the pair that finds its book, by -1 when it is a
\* returnBook of the pair that finds a loan, and not at all otherwise; so each
\* count is the number of such loanBook calls minus the number of such
\* returnBook calls.
C19_LoanCountConservation ==
    /\ Len(loans) = 0
    /\ [][/\ \A ISBN \in ISBNs, userID \in UserIDs :
               countLoans(loans', ISBN, userID) - countLoans(loans, ISBN, userID)
                  = (IF lends(ISBN, userID) THEN 1 ELSE 0)
                    - (IF takesBack(ISBN, userID) THEN 1 ELSE 0)
          /\ Len(loans') - Len(loans)
                = (IF \E ISBN \in ISBNs, userID \in UserIDs : lends(ISBN, userID)
                   THEN 1 ELSE 0)
                  - (IF \E ISBN \in ISBNs, userID \in UserIDs : takesBack(ISBN, userID)
                     THEN 1 ELSE 0)]_vars

\* After two loans, a returnBook has removed one record and one is left.
C19_Witness ==
    /\ lastOp = "returnBook"
    /\ hasLevel(console, "INFO")
    /\ Len(loans) = 1

\* ---- C20 ------------------------------------------------------------------
\* C20: an addBook that inserts puts the new record after all the others;
\* removeBook keeps the remaining records in their order; searchByTitle and
\* searchByAuthor return the books whose title or author contains the argument
\* in catalog order; searchByISBN returns the record of that ISBN, or
\* undefined when there is none.
C20_CatalogOrder ==
    [][/\ \A work \in CatalogWorks, ISBN \in CatalogISBNs :
            (AddBook(work.title, work.author, ISBN) /\ ~inCatalog(books, ISBN)) =>
               /\ Len(books') = Len(books) + 1
               /\ SubSeq(books', 1, Len(books)) = books
               /\ books'[Len(books')] = Book(work.title, work.author, ISBN)
       /\ \A ISBN \in CatalogISBNs :
            RemoveBook(ISBN) =>
               isSelection(books', books, LAMBDA book : book.ISBN # ISBN)
       /\ \A title \in Queries :
            SearchByTitle(title) =>
               /\ ret'.kind = "books"
               /\ isSelection(ret'.val, books,
                              LAMBDA book : occursIn(title, book.title))
       /\ \A author \in Queries :
            SearchByAuthor(author) =>
               /\ ret'.kind = "books"
               /\ isSelection(ret'.val, books,
                              LAMBDA book : occursIn(author, book.author))
       /\ \A ISBN \in CatalogISBNs :
            SearchByISBN(ISBN) =>
               IF inCatalog(books, ISBN)
               THEN /\ ret'.kind = "book"
                    /\ ret'.val[1].ISBN = ISBN
                    /\ \E k \in 1..Len(books) : books[k] = ret'.val[1]
               ELSE ret' = Undefined]_vars

\* searchByTitle has returned the first and the third of three books.
C20_Witness ==
    /\ lastOp = "searchByTitle"
    /\ Len(books) = 3
    /\ Len(ret.val) = 2
    /\ ret.val[1] = books[1]
    /\ ret.val[2] = books[3]

====
